---- MODULE Spec2Model ----
(***************************************************************************)
(* Program hierarchy service (services/programs.rs) and enrollment         *)
(* admission controller (services/enrollments.rs) of the ferries coaching  *)
(* service, as a state machine over the programs and enrollments tables.   *)
(*                                                                         *)
(* A program row is identified by its position in `programs`, an           *)
(* enrollment row by its position in `enrollments` (the code draws a fresh *)
(* fuzzy id for every insert).  A nullable column is a set with at most    *)
(* one element: {} is NULL, {x} is the value x.                            *)
(***************************************************************************)
EXTENDS Integers, Sequences, FiniteSets, TLC

\* ---- bounds -------------------------------------------------------------
MaxPrograms == 3
MaxEnrollments == 2
NumUsers == 3
MaxTime == 2
NumCallers == 2

\* ---- the users and coaches tables (fixed) --------------------------------
Users == 1..NumUsers
\* "The id of coach and user_id will be the same": the coaches are users; the
\* last user is no coach
Coaches == 1..(NumUsers - 1)
UnknownUser == NumUsers + 1
EmailOf(u) == <<"mail", u>>
Emails == {EmailOf(u) : u \in Users \cup {UnknownUser}}

\* ---- error messages -------------------------------------------------------
OK == "Ok"
INVALID_PROGRAM == "InvalidProgram"
PROGRAM_STATE_CHANGE_ERROR == "NotARootProgram"
PROGRAM_SAME_STATE_ERROR == "AlreadyInState"
COACH_WAS_ASSOCIATED == "CoachAlreadyAssociated"
COACH_WAS_A_MEMBER == "CoachWasMember"
INVALID_COACH == "InvalidCoach"
INVALID_USER == "MemberNotFound"
WARNING == "AlreadyEnrolled"
INVALID_MEMBER_MAIL == "InvalidMemberMail"
CONFLICT_PROGRAM_OWNER_MAIL == "NoRights"
MAIL_ERROR == "MailError"
ERROR_003 == "EnrollmentNotFound"

EnrollmentFilter_ALL == "ALL"
EnrollmentFilter_NEW == "NEW"
EnrollmentFilter == {EnrollmentFilter_ALL, EnrollmentFilter_NEW}

ACTIVATE == "ACTIVATE"
DEACTIVATE == "DEACTIVATE"
ProgramTargetState == {ACTIVATE, DEACTIVATE}

\* models/tasks.rs: Status, MemberTargetState, CoachTargetState
PLANNED == "PLANNED"
CANCELLED == "CANCELLED"
DUE == "DUE"
DELAY == "DELAY"
PROGRESS == "PROGRESS"
RESPONDED == "RESPONDED"
DONE == "DONE"
START == "START"
FINISH == "FINISH"
CANCEL == "CANCEL"
REOPEN == "REOPEN"
MemberTargetState == {START, FINISH}
CoachTargetState == {DONE, CANCEL, REOPEN}
ILLEGAL_STATE_TRANSITION == "IllegalStateTransition"

\* models/sessions.rs: Status, TargetState; models/objectives.rs: Status
READY == "READY"
OVERDUE == "OVERDUE"
TargetState == {READY, START, DONE, CANCEL}
VALIDATION_ERROR == "should be a future date."

\* programs and enrollments: the tables; task, session, objective: one row of
\* the tasks, the sessions and the objectives table; now: the clock; last: the
\* result of the last call; calls: the requests in flight, each with the
\* statement it has reached and the values it has read so far
VARIABLES programs, enrollments, task, session, objective, now, last, calls
vars == <<programs, enrollments, task, session, objective, now, last, calls>>

\* ---- models/programs.rs ---------------------------------------------------
ProgramIds == DOMAIN programs
UnknownProgram == Len(programs) + 1

\* own id for a root, parent_program_id otherwise
coalesce_parent_id(p) ==
    IF programs[p].parent_program_id = {} THEN p
    ELSE CHOOSE r \in programs[p].parent_program_id : TRUE

\* NewProgram::from_request: a root program
from_request(coach, isActive) ==
    [coach_id |-> coach, parent_program_id |-> {}, is_parent |-> TRUE, active |-> isActive]

\* NewProgram::from_parent_program: a spawned program under `parent`
from_parent_program(parent, coach) ==
    [coach_id |-> coach, parent_program_id |-> {parent}, is_parent |-> FALSE,
     active |-> programs[parent].active]

\* ---- models/tasks.rs ----------------------------------------------------------
\* dates are points of the clock; an Option is a set with at most one element
Times == 1..MaxTime
OptionalTimes == {{}} \cup {{t} : t \in Times}
Responses == {"first answer", "second answer"}

\* Option::unwrap_or
unwrap_or(option, default) == IF option = {} THEN default ELSE CHOOSE v \in option : TRUE

\* util::is_past_date
is_past_date(date) == date < now

\* NewTask::from, with the columns the insert leaves NULL
NewTask(start_date, duration) ==
    [original_start_date |-> start_date,
     original_end_date   |-> start_date + duration,
     revised_start_date  |-> {},
     revised_end_date    |-> {},
     actual_start_date   |-> {},
     actual_end_date     |-> {},
     response            |-> {},
     cancelled_at        |-> {},
     responded_date      |-> {}]

\* faulty variant: the finished check comes before the cancelled check
status_done_first(t) ==
    IF t.actual_end_date # {} THEN DONE
    ELSE IF t.cancelled_at # {} THEN CANCELLED
    ELSE IF t.responded_date # {} THEN RESPONDED
    ELSE IF is_past_date(unwrap_or(t.revised_end_date, t.original_end_date)) THEN DELAY
    ELSE IF t.actual_start_date # {} THEN PROGRESS
    ELSE IF is_past_date(unwrap_or(t.revised_start_date, t.original_start_date)) THEN DUE
    ELSE PLANNED

\* Task::status
status(t) ==
    IF t.cancelled_at # {} THEN CANCELLED
    ELSE IF t.actual_end_date # {} THEN DONE
    ELSE IF t.responded_date # {} THEN RESPONDED
    ELSE IF is_past_date(unwrap_or(t.revised_end_date, t.original_end_date)) THEN DELAY
    ELSE IF t.actual_start_date # {} THEN PROGRESS
    ELSE IF is_past_date(unwrap_or(t.revised_start_date, t.original_start_date)) THEN DUE
    ELSE PLANNED

\* faulty variant: a cancelled task can be started
can_start_when_cancelled(t) ==
    /\ t.actual_start_date = {}
    /\ t.responded_date = {}
    /\ t.actual_end_date = {}

can_start(t) ==
    /\ t.actual_start_date = {}
    /\ t.responded_date = {}
    /\ t.cancelled_at = {}
    /\ t.actual_end_date = {}

\* faulty variant: a task that was never started can be responded to
can_respond_unstarted(t) ==
    /\ t.cancelled_at = {}
    /\ t.actual_end_date = {}
    /\ t.responded_date = {}

can_respond(t) ==
    /\ t.cancelled_at = {}
    /\ t.actual_end_date = {}
    /\ t.responded_date = {}
    /\ t.actual_start_date # {}

\* faulty variant: a finished task can be finished again
can_finish_after_end(t) ==
    /\ t.actual_start_date # {}
    /\ t.response # {}
    /\ t.cancelled_at = {}
    /\ t.responded_date = {}

can_finish(t) ==
    /\ t.actual_start_date # {}
    /\ t.response # {}
    /\ t.cancelled_at = {}
    /\ t.responded_date = {}
    /\ t.actual_end_date = {}

\* faulty variant: a task can be completed without a response
can_complete_unresponded(t) ==
    /\ t.actual_end_date = {}
    /\ t.cancelled_at = {}

can_complete(t) ==
    /\ t.actual_end_date = {}
    /\ t.cancelled_at = {}
    /\ t.responded_date # {}

\* faulty variant: a cancelled task can be cancelled again
can_cancel_again(t) == t.actual_end_date = {}

\* faulty variant: a finished task can be cancelled
can_cancel_when_finished(t) == t.cancelled_at = {}

can_cancel(t) ==
    /\ t.actual_end_date = {}
    /\ t.cancelled_at = {}

\* faulty variant: every task can be reopened
can_reopen_always(t) == TRUE

\* faulty variant: a cancelled task cannot be reopened
can_reopen_unless_cancelled(t) ==
    /\ t.responded_date # {}
    /\ t.cancelled_at = {}

can_reopen(t) == t.responded_date # {}

\* ---- models/sessions.rs -------------------------------------------------------
\* NewSession::from, with the columns the insert leaves NULL
NewSession(start_date, duration) ==
    [original_start_date |-> start_date,
     original_end_date   |-> start_date + duration,
     revised_start_date  |-> {},
     revised_end_date    |-> {},
     is_ready            |-> FALSE,
     actual_start_date   |-> {},
     actual_end_date     |-> {},
     cancelled_at        |-> {}]

\* faulty variant: the ready flag is looked at before the start marker
session_status_ready_first(s) ==
    IF s.cancelled_at # {} THEN CANCELLED
    ELSE IF s.actual_end_date # {} THEN DONE
    ELSE IF s.is_ready THEN READY
    ELSE IF s.actual_start_date # {} THEN PROGRESS
    ELSE IF is_past_date(unwrap_or(s.revised_start_date, s.original_start_date)) THEN OVERDUE
    ELSE PLANNED

\* Session::status
session_status(s) ==
    IF s.cancelled_at # {} THEN CANCELLED
    ELSE IF s.actual_end_date # {} THEN DONE
    ELSE IF s.actual_start_date # {} THEN PROGRESS
    ELSE IF s.is_ready THEN READY
    ELSE IF is_past_date(unwrap_or(s.revised_start_date, s.original_start_date)) THEN OVERDUE
    ELSE PLANNED

\* faulty variant: a ready session can be deleted
can_delete_when_ready(s) ==
    IF s.cancelled_at # {} THEN FALSE
    ELSE IF s.actual_start_date # {} THEN FALSE
    ELSE TRUE

\* Session::can_delete
can_delete(s) ==
    IF s.cancelled_at # {} THEN FALSE
    ELSE IF s.actual_start_date # {} THEN FALSE
    ELSE IF s.is_ready THEN FALSE
    ELSE TRUE

\* ---- models/objectives.rs -----------------------------------------------------
\* util::is_in_past
is_in_past(date) == date < now

\* NewObjective::from, with the columns the insert leaves NULL
NewObjective(start_date, end_date) ==
    [original_start_date |-> start_date,
     original_end_date   |-> end_date,
     revised_start_date  |-> {},
     revised_end_date    |-> {},
     actual_start_date   |-> {},
     actual_end_date     |-> {}]

\* faulty variant: the end of the schedule is looked at before its start
objective_status_delay_first(o) ==
    IF o.actual_end_date # {} THEN DONE
    ELSE IF o.actual_start_date # {} THEN PROGRESS
    ELSE IF is_past_date(unwrap_or(o.revised_end_date, o.original_end_date)) THEN DELAY
    ELSE IF is_past_date(unwrap_or(o.revised_start_date, o.original_start_date)) THEN DUE
    ELSE PLANNED

\* Objective::status
objective_status(o) ==
    IF o.actual_end_date # {} THEN DONE
    ELSE IF o.actual_start_date # {} THEN PROGRESS
    ELSE IF is_past_date(unwrap_or(o.revised_start_date, o.original_start_date)) THEN DUE
    ELSE IF is_past_date(unwrap_or(o.revised_end_date, o.original_end_date)) THEN DELAY
    ELSE PLANNED

\* UpdateObjectiveRequest::validate, the dates
update_objective_error(start_time, end_time) ==
    IF is_in_past(start_time) \/ is_in_past(end_time) THEN VALIDATION_ERROR ELSE OK

\* ---- services/users.rs ----------------------------------------------------
find_user(uid) == {u \in Users : u = uid}
find_user_by_email(mail) == {u \in Users : EmailOf(u) = mail}
find_coach_by_id(cid) == {c \in Coaches : c = cid}
find_coach_by_email(mail) == {c \in Coaches : EmailOf(c) = mail}

\* ---- services/programs.rs ---------------------------------------------------
find_program(the_id) == {p \in ProgramIds : p = the_id}

\* programs.filter(parent_program_id.eq(root)).select(id)
prog_query(root) == {p \in ProgramIds : programs[p].parent_program_id = {root}}

prior_enrollments(root, user) ==
    {e \in DOMAIN enrollments :
        /\ enrollments[e].member_id = user
        /\ enrollments[e].program_id \in prog_query(root)}

\* TRUE when the gate lets the request through
gate_past_member(given_program, coach) ==
    prior_enrollments(coalesce_parent_id(given_program), coach) = {}

associated_programs(root, coach) ==
    {p \in ProgramIds :
        /\ programs[p].coach_id = coach
        /\ programs[p].parent_program_id = {root}}

\* faulty variant: the gate lets every request through
gate_already_associated_open(given_program, coach) == TRUE

\* faulty variant: the root of the given program is not resolved
gate_already_associated_by_given(given_program, coach) ==
    associated_programs(given_program, coach) = {}

gate_already_associated(given_program, coach) ==
    associated_programs(coalesce_parent_id(given_program), coach) = {}

\* faulty variant: the new program hangs under the given program, not under its root
spawned_program_under_given(given_program, coach) ==
    from_parent_program(given_program, coach)

\* the program associate_coach inserts once the gates have passed
spawned_program(given_program, coach) ==
    from_parent_program(coalesce_parent_id(given_program), coach)

\* faulty variant: the root of the given program is not resolved
get_peer_coaches_under_given(the_program_id) ==
    {<<p, c>> \in ProgramIds \X Coaches :
        /\ programs[p].parent_program_id = {the_program_id}
        /\ programs[p].coach_id = c}

get_peer_coaches(the_program_id) ==
    {<<p, c>> \in ProgramIds \X Coaches :
        /\ programs[p].parent_program_id = {coalesce_parent_id(the_program_id)}
        /\ programs[p].coach_id = c}

\* faulty variant: the is_parent check is missing
validate_target_state_any_program(program, target_state) ==
    IF programs[program].active /\ target_state = ACTIVATE THEN PROGRAM_SAME_STATE_ERROR
    ELSE IF ~programs[program].active /\ target_state = DEACTIVATE THEN PROGRAM_SAME_STATE_ERROR
    ELSE OK

validate_target_state(program, target_state) ==
    IF ~programs[program].is_parent THEN PROGRAM_STATE_CHANGE_ERROR
    ELSE IF programs[program].active /\ target_state = ACTIVATE THEN PROGRAM_SAME_STATE_ERROR
    ELSE IF ~programs[program].active /\ target_state = DEACTIVATE THEN PROGRAM_SAME_STATE_ERROR
    ELSE OK

\* faulty variant: the bulk update also takes the requested program itself
target_programs_with_root(request_id) == prog_query(request_id) \cup {request_id}

\* faulty variant: the bulk update has no filter
target_programs_whole_table(request_id) == ProgramIds

\* programs.filter(parent_program_id.eq(request.id))
target_programs(request_id) == prog_query(request_id)

\* ---- services/enrollments.rs ----------------------------------------------
\* faulty variant: only the enrollments in the given program are looked at
gate_prior_enrollment_same_program(program, user) ==
    {e \in DOMAIN enrollments :
        enrollments[e].member_id = user /\ enrollments[e].program_id = program} = {}

\* faulty variant: an enrollment in any program closes the gate
gate_prior_enrollment_any_program(program, user) ==
    {e \in DOMAIN enrollments : enrollments[e].member_id = user} = {}

gate_prior_enrollment(program, user) ==
    prior_enrollments(coalesce_parent_id(program), user) = {}

NewEnrollment(program, user, how) ==
    [program_id |-> program, member_id |-> user, is_new |-> TRUE, via |-> how]

\* rows find(program, user) may return once `rows` is the table
find_enrollment(rows, program, user) ==
    {e \in DOMAIN rows : rows[e].program_id = program /\ rows[e].member_id = user}

\* faulty variant: the update has no filter on the id
marked_rows_whole_table(rows, enrollment_id) ==
    [e \in DOMAIN rows |-> [rows[e] EXCEPT !.is_new = FALSE]]

\* the table after update(enrollments.filter(id.eq(enrollment_id))).set(is_new.eq(false))
marked_rows(rows, enrollment_id) ==
    [e \in DOMAIN rows |->
        IF e = enrollment_id THEN [rows[e] EXCEPT !.is_new = FALSE] ELSE rows[e]]

\* the users joined to the enrollments of the program, NEW keeping the rows
\* with is_new only, ordered by name (users are named in the order of their ids)
get_active_enrollments(the_program_id, desire) ==
    LET Wanted(row) == /\ row.program_id = the_program_id
                       /\ row.member_id \in Users
                       /\ desire = EnrollmentFilter_NEW => row.is_new
        rows == SelectSeq(enrollments, Wanted)
    IN  SortSeq([i \in 1..Len(rows) |-> rows[i].member_id], LAMBDA a, b : a < b)

\* ---- the result of the last call ------------------------------------------
\* the request's id (of a program; of an enrollment for mark_as_old) and target
\* state, the error message (OK when the call returned Ok) and the value
\* returned: a program id, an enrollment id or a row count
Result(op, program, target, err, ret) ==
    [op |-> op, program |-> program, target |-> target, err |-> err, ret |-> ret]

\* the connections that serve requests side by side
Callers == 1..NumCallers

\* a connection without a request
Idle == [pc |-> "idle", program |-> 0, user |-> 0, active |-> FALSE, found |-> 0]

Init ==
    /\ programs = <<>>
    /\ enrollments = <<>>
    /\ task = NewTask(1, 1)
    /\ session = NewSession(1, 1)
    /\ objective = NewObjective(1, 1)
    /\ now = 1
    /\ last = Result("init", 0, "", OK, 0)
    /\ calls = [k \in Callers |-> Idle]

\* ---- operations ------------------------------------------------------------
\* each operation below runs from its first statement to its return without
\* another request in between; the requests in flight follow further down
create_new_program(coach_id, isActive) ==
    /\ UNCHANGED <<enrollments, task, session, objective, now, calls>>
    /\ IF find_coach_by_id(coach_id) = {}
       THEN /\ UNCHANGED programs
            /\ last' = Result("create_new_program", 0, "", INVALID_COACH, 0)
       ELSE /\ Len(programs) < MaxPrograms
            /\ programs' = Append(programs, from_request(coach_id, isActive))
            /\ last' = Result("create_new_program", 0, "", OK, Len(programs) + 1)

\* faulty variant: the already-associated gate is asked before the past-member gate
associate_coach_error_gates_swapped(program_id, peer_coach_email) ==
    IF find_coach_by_email(peer_coach_email) = {} THEN INVALID_COACH
    ELSE IF find_program(program_id) = {} THEN INVALID_PROGRAM
    ELSE LET coach == CHOOSE c \in find_coach_by_email(peer_coach_email) : TRUE IN
         IF ~gate_already_associated(program_id, coach) THEN COACH_WAS_ASSOCIATED
         ELSE IF ~gate_past_member(program_id, coach) THEN COACH_WAS_A_MEMBER
         ELSE OK

associate_coach_error(program_id, peer_coach_email) ==
    IF find_coach_by_email(peer_coach_email) = {} THEN INVALID_COACH
    ELSE IF find_program(program_id) = {} THEN INVALID_PROGRAM
    ELSE LET coach == CHOOSE c \in find_coach_by_email(peer_coach_email) : TRUE IN
         IF ~gate_past_member(program_id, coach) THEN COACH_WAS_A_MEMBER
         ELSE IF ~gate_already_associated(program_id, coach) THEN COACH_WAS_ASSOCIATED
         ELSE OK

associate_coach(program_id, peer_coach_email) ==
    LET err == associate_coach_error(program_id, peer_coach_email) IN
    /\ UNCHANGED <<enrollments, task, session, objective, now, calls>>
    /\ IF err # OK
       THEN /\ UNCHANGED programs
            /\ last' = Result("associate_coach", program_id, "", err, 0)
       ELSE LET coach == CHOOSE c \in find_coach_by_email(peer_coach_email) : TRUE IN
            /\ Len(programs) < MaxPrograms
            /\ programs' = Append(programs, spawned_program(program_id, coach))
            /\ last' = Result("associate_coach", program_id, "", OK, Len(programs) + 1)

change_program_state_error(id, target_state) ==
    IF find_program(id) = {} THEN INVALID_PROGRAM
    ELSE validate_target_state(id, target_state)

change_program_state(id, target_state) ==
    LET err == change_program_state_error(id, target_state) IN
    /\ UNCHANGED <<enrollments, task, session, objective, now, calls>>
    /\ IF err # OK
       THEN /\ UNCHANGED programs
            /\ last' = Result("change_program_state", id, target_state, err, 0)
       ELSE /\ programs' = [p \in ProgramIds |->
                               IF p \in target_programs(id)
                               THEN [programs[p] EXCEPT !.active = (target_state = ACTIVATE)]
                               ELSE programs[p]]
            /\ last' = Result("change_program_state", id, target_state, OK, Cardinality(target_programs(id)))

\* gate, insert, re-read, mail: the tail shared by the two member entry points
admit(op, program, user) ==
    IF ~gate_prior_enrollment(program, user)
    THEN /\ UNCHANGED enrollments
         /\ last' = Result(op, program, "", WARNING, 0)
    ELSE /\ Len(enrollments) < MaxEnrollments
         /\ enrollments' = Append(enrollments, NewEnrollment(program, user, "member"))
         /\ \E e \in find_enrollment(enrollments', program, user), mailOk \in BOOLEAN :
                last' = IF mailOk THEN Result(op, program, "", OK, e)
                        ELSE Result(op, program, "", MAIL_ERROR, 0)

create_new_enrollment_error(program_id, user_id) ==
    IF find_user(user_id) = {} THEN INVALID_USER
    ELSE IF find_program(program_id) = {} THEN INVALID_PROGRAM
    ELSE OK

create_new_enrollment(program_id, user_id) ==
    LET err == create_new_enrollment_error(program_id, user_id) IN
    /\ UNCHANGED <<programs, task, session, objective, now, calls>>
    /\ IF err # OK
       THEN /\ UNCHANGED enrollments
            /\ last' = Result("create_new_enrollment", program_id, "", err, 0)
       ELSE admit("create_new_enrollment", program_id, user_id)

\* faulty variant: the owner of the program is checked before the member's mail
create_managed_enrollment_error_owner_first(program_id, coach_id, member_mail) ==
    IF {p \in find_program(program_id) : programs[p].coach_id = coach_id} = {}
    THEN CONFLICT_PROGRAM_OWNER_MAIL
    ELSE IF find_user_by_email(member_mail) = {} THEN INVALID_MEMBER_MAIL
    ELSE OK

create_managed_enrollment_error(program_id, coach_id, member_mail) ==
    IF find_user_by_email(member_mail) = {} THEN INVALID_MEMBER_MAIL
    ELSE IF {p \in find_program(program_id) : programs[p].coach_id = coach_id} = {}
    THEN CONFLICT_PROGRAM_OWNER_MAIL
    ELSE OK

create_managed_enrollment(program_id, coach_id, member_mail) ==
    LET err == create_managed_enrollment_error(program_id, coach_id, member_mail) IN
    /\ UNCHANGED <<programs, task, session, objective, now, calls>>
    /\ IF err # OK
       THEN /\ UNCHANGED enrollments
            /\ last' = Result("create_managed_enrollment", program_id, "", err, 0)
       ELSE admit("create_managed_enrollment", program_id,
                  CHOOSE u \in find_user_by_email(member_mail) : TRUE)

find_or_create_coach_enrollment(given_program_id) ==
    /\ UNCHANGED <<programs, task, session, objective, now, calls>>
    /\ IF find_program(given_program_id) = {}
       THEN /\ UNCHANGED enrollments
            /\ last' = Result("find_or_create_coach_enrollment", given_program_id, "", INVALID_PROGRAM, 0)
       ELSE LET given_coach_id == programs[given_program_id].coach_id
                existing == find_enrollment(enrollments, given_program_id, given_coach_id)
            IN  IF existing # {}
                THEN /\ UNCHANGED enrollments
                     /\ \E e \in existing :
                            last' = Result("find_or_create_coach_enrollment", given_program_id, "", OK, e)
                ELSE /\ Len(enrollments) < MaxEnrollments
                     /\ enrollments' = Append(enrollments,
                            NewEnrollment(given_program_id, given_coach_id, "coach"))
                     /\ \E e \in find_enrollment(enrollments', given_program_id, given_coach_id) :
                            last' = Result("find_or_create_coach_enrollment", given_program_id, "", OK, e)

mark_as_old(enrollment_id) ==
    /\ UNCHANGED <<programs, task, session, objective, now, calls>>
    /\ enrollments' = marked_rows(enrollments, enrollment_id)
    /\ last' = Result("mark_as_old", enrollment_id, "", OK,
                      Cardinality({e \in DOMAIN enrollments : e = enrollment_id}))

\* ---- task operations -------------------------------------------------------
\* the guard of a member's or a coach's target state
target_state_guard(t, target_state) ==
    CASE target_state = START  -> can_start(t)
      [] target_state = FINISH -> can_finish(t)
      [] target_state = DONE   -> can_complete(t)
      [] target_state = CANCEL -> can_cancel(t)
      [] target_state = REOPEN -> can_reopen(t)

\* faulty variant: a reopen also clears the response text
with_target_state_clearing_response(t, target_state) ==
    CASE target_state = START  -> [t EXCEPT !.actual_start_date = {now}]
      [] target_state = FINISH -> [t EXCEPT !.responded_date = {now}]
      [] target_state = DONE   -> [t EXCEPT !.actual_end_date = {now}]
      [] target_state = CANCEL -> [t EXCEPT !.cancelled_at = {now}]
      [] target_state = REOPEN -> [t EXCEPT !.responded_date = {}, !.response = {}]

\* the task once the target state is written at the current time
with_target_state(t, target_state) ==
    CASE target_state = START  -> [t EXCEPT !.actual_start_date = {now}]
      [] target_state = FINISH -> [t EXCEPT !.responded_date = {now}]
      [] target_state = DONE   -> [t EXCEPT !.actual_end_date = {now}]
      [] target_state = CANCEL -> [t EXCEPT !.cancelled_at = {now}]
      [] target_state = REOPEN -> [t EXCEPT !.responded_date = {}]

change_task_state(op, target_state) ==
    /\ UNCHANGED <<programs, enrollments, session, objective, now, calls>>
    /\ IF ~target_state_guard(task, target_state)
       THEN /\ UNCHANGED task
            /\ last' = Result(op, 0, target_state, ILLEGAL_STATE_TRANSITION, 0)
       ELSE /\ task' = with_target_state(task, target_state)
            /\ last' = Result(op, 0, target_state, OK, 0)

\* start and finish
change_member_task_state(target_state) ==
    change_task_state("change_member_task_state", target_state)

\* complete, cancel and reopen
change_coach_task_state(target_state) ==
    change_task_state("change_coach_task_state", target_state)

\* the task once the response text is written
with_response(t, response) == [t EXCEPT !.response = {response}]

\* respond: the member's response text
update_response(response) ==
    /\ UNCHANGED <<programs, enrollments, session, objective, now, calls>>
    /\ IF ~can_respond(task)
       THEN /\ UNCHANGED task
            /\ last' = Result("update_response", 0, "", ILLEGAL_STATE_TRANSITION, 0)
       ELSE /\ task' = with_response(task, response)
            /\ last' = Result("update_response", 0, "", OK, 0)

\* ---- requests in flight --------------------------------------------------------
\* one statement against the database is one step; the statements of two
\* requests interleave freely (no transaction wraps a request)
moved_to(k, statement) == [calls EXCEPT ![k].pc = statement]
returned(k) == [calls EXCEPT ![k] = Idle]

\* associate_coach: find_coach_by_email, find
associate_coach_begin(k, program_id, peer_coach_email) ==
    /\ calls[k].pc = "idle"
    /\ UNCHANGED <<programs, enrollments, task, session, objective, now>>
    /\ IF find_coach_by_email(peer_coach_email) = {}
       THEN /\ UNCHANGED calls
            /\ last' = Result("associate_coach", program_id, "", INVALID_COACH, 0)
       ELSE IF find_program(program_id) = {}
       THEN /\ UNCHANGED calls
            /\ last' = Result("associate_coach", program_id, "", INVALID_PROGRAM, 0)
       ELSE /\ calls' = [calls EXCEPT ![k] =
                   [Idle EXCEPT !.pc = "gate_past_member",
                                !.program = program_id,
                                !.user = CHOOSE c \in find_coach_by_email(peer_coach_email) : TRUE]]
            /\ UNCHANGED last

\* associate_coach: gate_past_member(..)?
associate_coach_gate_past_member(k) ==
    /\ calls[k].pc = "gate_past_member"
    /\ UNCHANGED <<programs, enrollments, task, session, objective, now>>
    /\ IF gate_past_member(calls[k].program, calls[k].user)
       THEN /\ calls' = moved_to(k, "gate_already_associated")
            /\ UNCHANGED last
       ELSE /\ calls' = returned(k)
            /\ last' = Result("associate_coach", calls[k].program, "", COACH_WAS_A_MEMBER, 0)

\* associate_coach: gate_already_associated(..)?
associate_coach_gate_already_associated(k) ==
    /\ calls[k].pc = "gate_already_associated"
    /\ UNCHANGED <<programs, enrollments, task, session, objective, now>>
    /\ IF gate_already_associated(calls[k].program, calls[k].user)
       THEN /\ calls' = moved_to(k, "find_parent")
            /\ UNCHANGED last
       ELSE /\ calls' = returned(k)
            /\ last' = Result("associate_coach", calls[k].program, "", COACH_WAS_ASSOCIATED, 0)

\* associate_coach: find(given_program.coalesce_parent_id())
associate_coach_find_parent(k) ==
    /\ calls[k].pc = "find_parent"
    /\ UNCHANGED <<programs, enrollments, task, session, objective, now, last>>
    /\ calls' = [calls EXCEPT
                   ![k].pc = "insert_program",
                   ![k].active = programs[coalesce_parent_id(calls[k].program)].active]

\* associate_coach: from_parent_program of the parent as it was read, insert_program
associate_coach_insert_program(k) ==
    /\ calls[k].pc = "insert_program"
    /\ UNCHANGED <<enrollments, task, session, objective, now>>
    /\ Len(programs) < MaxPrograms
    /\ programs' = Append(programs,
                       [spawned_program(calls[k].program, calls[k].user)
                           EXCEPT !.active = calls[k].active])
    /\ calls' = returned(k)
    /\ last' = Result("associate_coach", calls[k].program, "", OK, Len(programs) + 1)

\* create_new_enrollment: users::find, programs::find
create_new_enrollment_begin(k, program_id, user_id) ==
    LET err == create_new_enrollment_error(program_id, user_id) IN
    /\ calls[k].pc = "idle"
    /\ UNCHANGED <<programs, enrollments, task, session, objective, now>>
    /\ IF err # OK
       THEN /\ UNCHANGED calls
            /\ last' = Result("create_new_enrollment", program_id, "", err, 0)
       ELSE /\ calls' = [calls EXCEPT ![k] =
                   [Idle EXCEPT !.pc = "gate_prior_enrollment",
                                !.program = program_id,
                                !.user = user_id]]
            /\ UNCHANGED last

\* create_new_enrollment: gate_prior_enrollment(..)?
create_new_enrollment_gate_prior_enrollment(k) ==
    /\ calls[k].pc = "gate_prior_enrollment"
    /\ UNCHANGED <<programs, enrollments, task, session, objective, now>>
    /\ IF gate_prior_enrollment(calls[k].program, calls[k].user)
       THEN /\ calls' = moved_to(k, "insert_enrollment")
            /\ UNCHANGED last
       ELSE /\ calls' = returned(k)
            /\ last' = Result("create_new_enrollment", calls[k].program, "", WARNING, 0)

\* create_new_enrollment: insert_enrollment(..)?
create_new_enrollment_insert_enrollment(k) ==
    /\ calls[k].pc = "insert_enrollment"
    /\ UNCHANGED <<programs, task, session, objective, now, last>>
    /\ Len(enrollments) < MaxEnrollments
    /\ enrollments' = Append(enrollments,
                          NewEnrollment(calls[k].program, calls[k].user, "member"))
    /\ calls' = moved_to(k, "find")

\* create_new_enrollment: find(..)?, the first row of the program and the member
create_new_enrollment_find(k) ==
    /\ calls[k].pc = "find"
    /\ UNCHANGED <<programs, enrollments, task, session, objective, now>>
    /\ IF find_enrollment(enrollments, calls[k].program, calls[k].user) = {}
       THEN /\ calls' = returned(k)
            /\ last' = Result("create_new_enrollment", calls[k].program, "", ERROR_003, 0)
       ELSE /\ \E e \in find_enrollment(enrollments, calls[k].program, calls[k].user) :
                   calls' = [calls EXCEPT ![k].pc = "create_mail", ![k].found = e]
            /\ UNCHANGED last

\* create_new_enrollment: users::find of the coach, create_self_enrollment_mail(..)?
create_new_enrollment_create_mail(k) ==
    /\ calls[k].pc = "create_mail"
    /\ UNCHANGED <<programs, enrollments, task, session, objective, now>>
    /\ calls' = returned(k)
    /\ \E mailOk \in BOOLEAN :
          last' = IF mailOk
                  THEN Result("create_new_enrollment", calls[k].program, "", OK, calls[k].found)
                  ELSE Result("create_new_enrollment", calls[k].program, "", MAIL_ERROR, 0)

\* ---- session and objective operations -----------------------------------------
\* cancelling is permitted before actual_end_date is set
change_session_state_error(target_state) ==
    IF target_state = CANCEL /\ (session.actual_end_date # {} \/ session.cancelled_at # {})
    THEN ILLEGAL_STATE_TRANSITION
    ELSE OK

change_session_state(target_state) ==
    LET err == change_session_state_error(target_state) IN
    /\ UNCHANGED <<programs, enrollments, task, objective, now, calls>>
    /\ last' = Result("change_session_state", 0, target_state, err, 0)
    /\ IF err # OK
       THEN UNCHANGED session
       ELSE session' =
              CASE target_state = READY  -> [session EXCEPT !.is_ready = TRUE]
                [] target_state = START  -> [session EXCEPT !.actual_start_date = {now}]
                [] target_state = DONE   -> [session EXCEPT !.actual_end_date = {now}]
                [] target_state = CANCEL -> [session EXCEPT !.cancelled_at = {now}]

update_objective(start_time, end_time) ==
    LET err == update_objective_error(start_time, end_time) IN
    /\ UNCHANGED <<programs, enrollments, task, session, now, calls>>
    /\ last' = Result("update_objective", 0, "", err, 0)
    /\ IF err # OK
       THEN UNCHANGED objective
       ELSE objective' = [objective EXCEPT !.original_start_date = start_time,
                                           !.original_end_date = end_time]

\* time passes
tick ==
    /\ now < MaxTime
    /\ now' = now + 1
    /\ UNCHANGED <<programs, enrollments, task, session, objective, last, calls>>

\* ---- specifications --------------------------------------------------------
ProgramInputs == ProgramIds \cup {UnknownProgram}
UserInputs == Users \cup {UnknownUser}

\* hierarchy and admission: the operations that read or write the family
\* structure and the enrollments, called with ids and mails of stored rows;
\* roots are created active
Next ==
    \/ \E c \in Coaches : create_new_program(c, TRUE)
    \/ \E p \in ProgramIds, c \in Coaches : associate_coach(p, EmailOf(c))
    \/ \E p \in ProgramIds, u \in Users : create_new_enrollment(p, u)
    \/ \E p \in ProgramIds, c \in Coaches, u \in Users :
            create_managed_enrollment(p, c, EmailOf(u))
    \/ \E p \in ProgramIds : find_or_create_coach_enrollment(p)

Spec == Init /\ [][Next]_vars

\* hierarchy and activation: the operations of services/programs.rs, called
\* with stored and with unknown ids and mails
NextHierarchy ==
    \/ \E c \in UserInputs, a \in BOOLEAN : create_new_program(c, a)
    \/ \E p \in ProgramInputs, m \in Emails : associate_coach(p, m)
    \/ \E p \in ProgramInputs, t \in ProgramTargetState : change_program_state(p, t)

SpecHierarchy == Init /\ [][NextHierarchy]_vars

\* the roster of a program: members enroll themselves and their enrollments
\* are marked as old, with stored and with unknown enrollment ids
EnrollmentInputs == DOMAIN enrollments \cup {Len(enrollments) + 1}

NextRoster ==
    \/ \E c \in Coaches : create_new_program(c, TRUE)
    \/ \E p \in ProgramIds, c \in Coaches : associate_coach(p, EmailOf(c))
    \/ \E p \in ProgramIds, u \in Users : create_new_enrollment(p, u)
    \/ \E e \in EnrollmentInputs : mark_as_old(e)

SpecRoster == Init /\ [][NextRoster]_vars

\* requests with stored and with unknown ids and mails: associations and
\* enrollments, by the member and by a coach
NextRequests ==
    \/ \E c \in Coaches : create_new_program(c, TRUE)
    \/ \E p \in ProgramInputs, m \in Emails : associate_coach(p, m)
    \/ \E p \in ProgramIds, u \in Users : create_new_enrollment(p, u)
    \/ \E p \in ProgramInputs, c \in Coaches, m \in Emails :
            create_managed_enrollment(p, c, m)

SpecRequests == Init /\ [][NextRequests]_vars

\* associations side by side: the statements of associate_coach, interleaved
\* between the connections
NextAssociating ==
    \/ \E c \in Coaches : create_new_program(c, TRUE)
    \/ \E k \in Callers, p \in ProgramIds, c \in Coaches :
            associate_coach_begin(k, p, EmailOf(c))
    \/ \E k \in Callers : associate_coach_gate_past_member(k)
    \/ \E k \in Callers : associate_coach_gate_already_associated(k)
    \/ \E k \in Callers : associate_coach_find_parent(k)
    \/ \E k \in Callers : associate_coach_insert_program(k)

SpecAssociating == Init /\ [][NextAssociating]_vars

\* enrollments side by side: the statements of create_new_enrollment,
\* interleaved between the connections, in families built beforehand
NextEnrolling ==
    \/ \E c \in Coaches : create_new_program(c, TRUE)
    \/ \E p \in ProgramIds, c \in Coaches : associate_coach(p, EmailOf(c))
    \/ \E k \in Callers, p \in ProgramIds, u \in Users \ Coaches :
            create_new_enrollment_begin(k, p, u)
    \/ \E k \in Callers : create_new_enrollment_gate_prior_enrollment(k)
    \/ \E k \in Callers : create_new_enrollment_insert_enrollment(k)
    \/ \E k \in Callers : create_new_enrollment_find(k)
    \/ \E k \in Callers : create_new_enrollment_create_mail(k)

SpecEnrolling == Init /\ [][NextEnrolling]_vars

\* the life of one task: any row the tasks table can hold at any time of the
\* clock (the scheduled end is not before the scheduled start, no marker is
\* later than the clock), then the member's and the coach's operations
TaskInputs(time) ==
    {t \in [original_start_date : Times,
            original_end_date   : Times,
            revised_start_date  : OptionalTimes,
            revised_end_date    : OptionalTimes,
            actual_start_date   : OptionalTimes,
            actual_end_date     : OptionalTimes,
            response            : {{}} \cup {{r} : r \in Responses},
            cancelled_at        : OptionalTimes,
            responded_date      : OptionalTimes] :
        /\ t.original_start_date <= t.original_end_date
        /\ \A marker \in {t.actual_start_date, t.actual_end_date, t.cancelled_at, t.responded_date} :
              \A at \in marker : at <= time}

InitTasks ==
    /\ programs = <<>>
    /\ enrollments = <<>>
    /\ now \in Times
    /\ task \in TaskInputs(now)
    /\ session = NewSession(1, 1)
    /\ objective = NewObjective(1, 1)
    /\ last = Result("init", 0, "", OK, 0)
    /\ calls = [k \in Callers |-> Idle]

NextTasks ==
    \/ \E t \in MemberTargetState : change_member_task_state(t)
    \/ \E t \in CoachTargetState : change_coach_task_state(t)
    \/ \E r \in Responses : update_response(r)
    \/ tick

SpecTasks == InitTasks /\ [][NextTasks]_vars

\* the life of one session: any row the sessions table can hold at any time of
\* the clock, then the state changes
SessionInputs(time) ==
    {s \in [original_start_date : Times,
            original_end_date   : Times,
            revised_start_date  : OptionalTimes,
            revised_end_date    : OptionalTimes,
            is_ready            : BOOLEAN,
            actual_start_date   : OptionalTimes,
            actual_end_date     : OptionalTimes,
            cancelled_at        : OptionalTimes] :
        /\ s.original_start_date <= s.original_end_date
        /\ \A marker \in {s.actual_start_date, s.actual_end_date, s.cancelled_at} :
              \A at \in marker : at <= time}

InitSessions ==
    /\ programs = <<>>
    /\ enrollments = <<>>
    /\ now \in Times
    /\ task = NewTask(1, 1)
    /\ session \in SessionInputs(now)
    /\ objective = NewObjective(1, 1)
    /\ last = Result("init", 0, "", OK, 0)
    /\ calls = [k \in Callers |-> Idle]

NextSessions ==
    \/ \E t \in TargetState : change_session_state(t)
    \/ tick

SpecSessions == InitSessions /\ [][NextSessions]_vars

\* the life of one objective: any row the objectives table can hold at any
\* time of the clock (the request does not order start and end), then the
\* updates of its schedule
ObjectiveInputs(time) ==
    {o \in [original_start_date : Times,
            original_end_date   : Times,
            revised_start_date  : OptionalTimes,
            revised_end_date    : OptionalTimes,
            actual_start_date   : OptionalTimes,
            actual_end_date     : OptionalTimes] :
        \A marker \in {o.actual_start_date, o.actual_end_date} :
            \A at \in marker : at <= time}

InitObjectives ==
    /\ programs = <<>>
    /\ enrollments = <<>>
    /\ now \in Times
    /\ task = NewTask(1, 1)
    /\ session = NewSession(1, 1)
    /\ objective \in ObjectiveInputs(now)
    /\ last = Result("init", 0, "", OK, 0)
    /\ calls = [k \in Callers |-> Idle]

NextObjectives ==
    \/ \E start_time, end_time \in Times : update_objective(start_time, end_time)
    \/ tick

SpecObjectives == InitObjectives /\ [][NextObjectives]_vars

\* ---- vocabulary of the claims -----------------------------------------------
Family(p) == coalesce_parent_id(p)
Spawned == {p \in ProgramIds : ~programs[p].is_parent}
MemberRows == {e \in DOMAIN enrollments : enrollments[e].via = "member"}
MemberOps == {"create_new_enrollment", "create_managed_enrollment"}
\* a create_enrollment or an owner's create_managed_enrollment of member m into q
Enroll(q, m) ==
    \/ create_new_enrollment(q, m)
    \/ create_managed_enrollment(q, programs[q].coach_id, EmailOf(m))
\* the programs of a family have pairwise different coaches
DistinctCoaches ==
    \A p1, p2 \in ProgramIds :
        (p1 # p2 /\ Family(p1) = Family(p2)) => programs[p1].coach_id # programs[p2].coach_id
\* user m coaches no program
PureMember(m) == \A p \in ProgramIds : programs[p].coach_id # m
\* user c coaches no program of p's family
CoachesNothingIn(p, c) ==
    \A q \in ProgramIds : Family(q) = Family(p) => programs[q].coach_id # c
\* user c is admitted as a member in no program of p's family
MemberNowhereIn(p, c) ==
    \A e \in MemberRows :
        enrollments[e].member_id = c => Family(enrollments[e].program_id) # Family(p)

\* C1: right after a create_enrollment or managed enrollment of member M into
\* program P has succeeded, an enrollment of M into a different program Q of
\* P's family (P or Q may be the root) fails with AlreadyEnrolled and inserts
\* nothing.  Stated for a member who coaches no program, in families whose
\* coaches are pairwise different.
C1_OneEnrollmentPerFamily ==
    [][\A q \in ProgramIds, m \in Users :
         ( /\ last.op \in MemberOps
           /\ last.err = OK
           /\ enrollments[last.ret].member_id = m
           /\ enrollments[last.ret].program_id # q
           /\ Family(enrollments[last.ret].program_id) = Family(q)
           /\ PureMember(m)
           /\ DistinctCoaches
           /\ Enroll(q, m) )
         => (last'.err = WARNING /\ enrollments' = enrollments)]_vars

\* C2: there is at most one enrollment row per (program, member) pair.  Stated
\* for members who coach no program.
C2_OncePerProgramAndMember ==
    \A e1, e2 \in DOMAIN enrollments :
        ( /\ enrollments[e1].program_id = enrollments[e2].program_id
          /\ enrollments[e1].member_id = enrollments[e2].member_id
          /\ PureMember(enrollments[e1].member_id) )
        => e1 = e2

\* C3: the hierarchy has exactly two levels: a program is a root (no parent,
\* is_parent) or a spawned program (not is_parent) whose parent is an existing
\* root, also when it was spawned through a peer's id.
C3_TwoLevelHierarchy ==
    \A p \in ProgramIds :
        \/ programs[p].parent_program_id = {} /\ programs[p].is_parent
        \/ /\ ~programs[p].is_parent
           /\ \E r \in ProgramIds :
                 /\ programs[p].parent_program_id = {r}
                 /\ programs[r].parent_program_id = {}
                 /\ programs[r].is_parent

\* C3 witness: associate_coach given a spawned program's id has inserted a program.
C3_SpawnedThroughPeer ==
    /\ last.op = "associate_coach"
    /\ last.err = OK
    /\ last.program \in Spawned
    /\ last.ret \in Spawned

\* rows of get_peer_coaches(p) for coach c
PeerRows(p, c) == {row \in get_peer_coaches(p) : row[2] = c}

\* C4 as stated: once coach C is associated in a family, any later
\* associate_coach for C in that family fails with CoachAlreadyAssociated.
\* Stated for a coach who is not the coach of the family's root and has not
\* been admitted as a member in the family.
C4_ReassociationAlreadyAssociated ==
    [][\A p \in ProgramIds, c \in Coaches :
         ( /\ associated_programs(Family(p), c) # {}
           /\ programs[Family(p)].coach_id # c
           /\ MemberNowhereIn(p, c)
           /\ DistinctCoaches
           /\ associate_coach(p, EmailOf(c)) )
         => (last'.err = COACH_WAS_ASSOCIATED /\ programs' = programs)]_vars

\* once coach c is associated in p's family, get_peer_coaches(p) has one row for c
OnePeerRowPerAssociatedCoach ==
    \A p \in ProgramIds, c \in Coaches :
        associated_programs(Family(p), c) # {} => Cardinality(PeerRows(p, c)) = 1

\* C4 amended: once coach C is associated in a family, get_peer_coaches shows
\* exactly one row for C, and any later associate_coach for C in that family
\* (through the root's id or a peer's) fails, with CoachAlreadyAssociated or,
\* from the earlier gate, CoachWasMember, and inserts no program.
C4_ReassociationRejected ==
    [][ /\ programs' # programs => OnePeerRowPerAssociatedCoach'
        /\ last'.op = "associate_coach" =>
              \A c \in Coaches :
                 ( /\ last'.program \in ProgramIds
                   /\ associated_programs(Family(last'.program), c) # {}
                   /\ associate_coach(last'.program, EmailOf(c)) )
                 => ( /\ last'.err \in {COACH_WAS_ASSOCIATED, COACH_WAS_A_MEMBER}
                      /\ programs' = programs ) ]_vars

\* C4 witness: a second association of an associated coach, asked through a
\* peer's id, was rejected by the already-associated gate.
C4_SecondAssociationRejected ==
    /\ last.op = "associate_coach"
    /\ last.err = COACH_WAS_ASSOCIATED
    /\ last.program \in Spawned
    /\ DistinctCoaches
    /\ \E c \in Coaches : Cardinality(PeerRows(last.program, c)) = 1

\* C5: associate_coach fails with CoachAlreadyAssociated whenever a program of
\* the family, the root included, already has the peer coach as its coach.
C5_FamilyCoachRejected ==
    [][\A p \in ProgramIds, c \in Coaches :
         ( /\ \E q \in ProgramIds : Family(q) = Family(p) /\ programs[q].coach_id = c
           /\ associate_coach(p, EmailOf(c)) )
         => (last'.err = COACH_WAS_ASSOCIATED /\ programs' = programs)]_vars

\* C6: associate_coach fails with CoachWasMember and inserts no program when
\* the peer coach is enrolled as a member in a program of the family, root or
\* spawned.  Stated for a peer coach who coaches no program of the family.
C6_PastMemberRejected ==
    [][\A p \in ProgramIds, c \in Coaches :
         ( /\ ~MemberNowhereIn(p, c)
           /\ CoachesNothingIn(p, c)
           /\ associate_coach(p, EmailOf(c)) )
         => (last'.err = COACH_WAS_A_MEMBER /\ programs' = programs)]_vars

\* C7: no user is both the coach of a spawned program of a family and a member
\* enrolled (by create_enrollment or create_managed_enrollment) in that family.
\* Stated for enrollments in spawned programs, in families whose coaches are
\* pairwise different.
C7_NoCoachAndMemberInFamily ==
    \A p \in Spawned, e \in MemberRows :
        ~ ( /\ DistinctCoaches
            /\ enrollments[e].member_id = programs[p].coach_id
            /\ enrollments[e].program_id \in Spawned
            /\ Family(enrollments[e].program_id) = Family(p) )

\* C8: change_program_state on a program with is_parent = false fails with the
\* not-a-root error, for either target, and changes no program.
C8_NonRootRejected ==
    [][( /\ last'.op = "change_program_state"
         /\ last'.program \in Spawned )
       => (last'.err = PROGRAM_STATE_CHANGE_ERROR /\ programs' = programs)]_vars

\* C8 witness: a state change asked of a spawned program was rejected.
C8_SpawnedRejected ==
    /\ last.op = "change_program_state"
    /\ last.program \in Spawned
    /\ last.err = PROGRAM_STATE_CHANGE_ERROR

\* C9: a successful change_program_state(root, target) leaves every program
\* whose parent_program_id is the root's id with active = (target = ACTIVATE)
\* and returns the number of those programs.
C9_PeersFollowTarget ==
    [][( /\ last'.op = "change_program_state"
         /\ last'.err = OK )
       => ( /\ \A p \in prog_query(last'.program) :
                  programs'[p].active = (last'.target = ACTIVATE)
            /\ last'.ret = Cardinality(prog_query(last'.program)) )]_vars

\* C9 witness: a successful state change has flipped two peers.
C9_TwoPeersChanged ==
    /\ last.op = "change_program_state"
    /\ last.err = OK
    /\ last.ret = 2
    /\ \A p \in prog_query(last.program) : programs[p].active = (last.target = ACTIVATE)

\* C10: right after a successful change_program_state(root, T), the same
\* request (root, T) is answered with AlreadyInState.  Stated for a call that
\* has updated at least one peer.
C10_RepeatIsAlreadyInState ==
    (last.op = "change_program_state" /\ last.err = OK /\ last.ret > 0)
    => change_program_state_error(last.program, last.target) = PROGRAM_SAME_STATE_ERROR

C12_MailFailureStillSucceeds ==
    [][( /\ last'.op = "create_new_enrollment"
         /\ enrollments' # enrollments )
       => ( /\ last'.err = OK
            /\ last'.ret \in DOMAIN enrollments'
            /\ enrollments'[last'.ret].program_id = last'.program )]_vars

\* C13: whenever create_enrollment, create_managed_enrollment, associate_coach
\* or create_root_program returns an error, the stored programs and
\* enrollments are what they were before the call.
C13_ErrorLeavesStateUnchanged ==
    [][( /\ last'.op \in {"create_new_enrollment", "create_managed_enrollment",
                           "associate_coach", "create_new_program"}
         /\ last'.err # OK )
       => (programs' = programs /\ enrollments' = enrollments)]_vars

\* C14: after find_or_create_coach_enrollment(P) has returned, there is
\* exactly one enrollment of P's coach in P, it is the one returned, and a
\* call that found an enrollment has inserted nothing.
C14_OneCoachEnrollment ==
    [][ last'.op = "find_or_create_coach_enrollment" =>
          LET p == last'.program
              rows == find_enrollment(enrollments', p, programs[p].coach_id)
          IN  /\ last'.err = OK
              /\ rows = {last'.ret}
              /\ find_enrollment(enrollments, p, programs[p].coach_id) # {}
                    => enrollments' = enrollments ]_vars

\* the members a query of get_active_enrollments lists
Listed(p, desire) ==
    {get_active_enrollments(p, desire)[i] : i \in 1..Len(get_active_enrollments(p, desire))}

\* C15: mark_as_old returns Ok for every enrollment id, leaves the enrollment
\* with is_new = false whatever the flag was, changes no other enrollment and
\* no other column, and applying it again to the result changes nothing.
C15_MarkAsOldIdempotent ==
    [][\A id \in EnrollmentInputs :
         mark_as_old(id) =>
           /\ last'.err = OK
           /\ DOMAIN enrollments' = DOMAIN enrollments
           /\ \A e \in DOMAIN enrollments :
                 enrollments'[e] = IF e = id THEN [enrollments[e] EXCEPT !.is_new = FALSE]
                                   ELSE enrollments[e]
           /\ marked_rows(enrollments', id) = enrollments'
           /\ programs' = programs ]_vars

\* C15 witness: mark_as_old has cleared the flag of one enrollment while
\* another enrollment is still new.
C15_OneMarkedOneNew ==
    /\ last.op = "mark_as_old"
    /\ last.err = OK
    /\ last.ret = 1
    /\ ~enrollments[last.program].is_new
    /\ \E e \in DOMAIN enrollments :
          /\ enrollments[e].is_new
          /\ enrollments[e].member_id # enrollments[last.program].member_id

\* C16: for every enrollment of member M in program P made by
\* create_enrollment, get_active_enrollments(P, ALL) lists M, and
\* get_active_enrollments(P, NEW) lists M exactly as long as mark_as_old has
\* not been applied to that enrollment (its is_new flag is still set).
\* Stated for members who coach no program.
C16_NewUntilMarkedOld ==
    \A e \in MemberRows :
        LET p == enrollments[e].program_id
            m == enrollments[e].member_id
        IN  PureMember(m) =>
              /\ m \in Listed(p, EnrollmentFilter_ALL)
              /\ m \in Listed(p, EnrollmentFilter_NEW) <=> enrollments[e].is_new

\* the words of the task lifecycle
Started == task.actual_start_date # {}
Finished == task.actual_end_date # {}
Cancelled == task.cancelled_at # {}
Responded == task.responded_date # {}
HasResponse == task.response # {}
EffectiveStart ==
    IF task.revised_start_date # {} THEN CHOOSE d \in task.revised_start_date : TRUE
    ELSE task.original_start_date
EffectiveEnd ==
    IF task.revised_end_date # {} THEN CHOOSE d \in task.revised_end_date : TRUE
    ELSE task.original_end_date
TaskOps == {"change_member_task_state", "change_coach_task_state", "update_response"}

\* C17: Task.status is the first match in the order CANCELLED (cancelled_at
\* set), DONE (actual_end_date set), RESPONDED (responded_date set), DELAY
\* (effective end in the past), PROGRESS (actual_start_date set), DUE
\* (effective start in the past), PLANNED, the effective date being the
\* revised one when present; a cancelled and finished task is CANCELLED.
C17_StatusPrecedence ==
    /\ status(task) = CANCELLED <=> Cancelled
    /\ status(task) = DONE <=> ~Cancelled /\ Finished
    /\ status(task) = RESPONDED <=> ~Cancelled /\ ~Finished /\ Responded
    /\ status(task) = DELAY <=>
          ~Cancelled /\ ~Finished /\ ~Responded /\ EffectiveEnd < now
    /\ status(task) = PROGRESS <=>
          ~Cancelled /\ ~Finished /\ ~Responded /\ ~(EffectiveEnd < now) /\ Started
    /\ status(task) = DUE <=>
          /\ ~Cancelled /\ ~Finished /\ ~Responded /\ ~(EffectiveEnd < now) /\ ~Started
          /\ EffectiveStart < now
    /\ status(task) = PLANNED <=>
          /\ ~Cancelled /\ ~Finished /\ ~Responded /\ ~(EffectiveEnd < now) /\ ~Started
          /\ ~(EffectiveStart < now)

\* C17 witness: a task with cancelled_at and actual_end_date both set, whose
\* revised end lies in the past, reports CANCELLED.
C17_CancelledAndFinished ==
    /\ Cancelled
    /\ Finished
    /\ task.revised_end_date # {}
    /\ EffectiveEnd < now
    /\ status(task) = CANCELLED

\* C18: the guards follow the guard table: can_start = not started, not
\* responded, not cancelled, not finished; can_respond = started, not
\* cancelled, not finished, not responded; can_complete = not finished, not
\* cancelled, responded; can_cancel = not finished, not cancelled;
\* can_reopen = responded.
C18_GuardTable ==
    /\ can_start(task) <=> ~Started /\ ~Responded /\ ~Cancelled /\ ~Finished
    /\ can_respond(task) <=> Started /\ ~Cancelled /\ ~Finished /\ ~Responded
    /\ can_complete(task) <=> ~Finished /\ ~Cancelled /\ Responded
    /\ can_cancel(task) <=> ~Finished /\ ~Cancelled
    /\ can_reopen(task) <=> Responded

\* C18 witness: a start has been written; the task can be responded to and
\* cancelled, and no longer started.
C18_StartedTask ==
    /\ last.op = "change_member_task_state"
    /\ last.target = START
    /\ last.err = OK
    /\ can_respond(task)
    /\ can_cancel(task)
    /\ ~can_start(task)
    /\ ~can_complete(task)
    /\ ~can_reopen(task)

\* C19 as stated: can_finish is true exactly when the task has started, has
\* a response text, is not cancelled and has not responded, with no further
\* condition.
C19_FinishGuardOfTable ==
    can_finish(task) <=> Started /\ HasResponse /\ ~Cancelled /\ ~Responded

\* C19 amended: can_finish is true exactly when the task has started, has a
\* response text, is not cancelled, has not responded and has not finished
\* (actual_end_date unset).
C19_FinishGuard ==
    can_finish(task) <=> Started /\ HasResponse /\ ~Cancelled /\ ~Responded /\ ~Finished

\* C19 witness: a finished task was reopened: it has started, has a response
\* text, is not cancelled and not responded, and cannot be finished.
C19_ReopenedAfterEnd ==
    /\ last.op = "change_coach_task_state"
    /\ last.target = REOPEN
    /\ last.err = OK
    /\ Started /\ HasResponse /\ ~Cancelled /\ ~Responded /\ Finished
    /\ ~can_finish(task)

\* C20: a task operation writes its marker, and nothing else, when its guard
\* holds in the current state (start: can_start, respond: can_respond,
\* finish: can_finish, complete: can_complete, cancel: can_cancel, reopen:
\* can_reopen, each as a condition on the markers); otherwise it fails with
\* IllegalStateTransition and leaves every field of the task unchanged.
C20_GuardedMutations ==
    [][( /\ last'.op \in TaskOps
         /\ now' = now )
       => LET respond == last'.op = "update_response"
              target == last'.target
              guard ==
                  \/ respond /\ Started /\ ~Cancelled /\ ~Finished /\ ~Responded
                  \/ target = START /\ ~Started /\ ~Responded /\ ~Cancelled /\ ~Finished
                  \/ /\ target = FINISH
                     /\ Started /\ HasResponse /\ ~Cancelled /\ ~Responded /\ ~Finished
                  \/ target = DONE /\ ~Finished /\ ~Cancelled /\ Responded
                  \/ target = CANCEL /\ ~Finished /\ ~Cancelled
                  \/ target = REOPEN /\ Responded
              written ==
                  \/ /\ respond
                     /\ task'.response # {}
                     /\ task' = [task EXCEPT !.response = task'.response]
                  \/ /\ target = START
                     /\ task' = [task EXCEPT !.actual_start_date = {now}]
                  \/ /\ target = FINISH
                     /\ task' = [task EXCEPT !.responded_date = {now}]
                  \/ /\ target = DONE
                     /\ task' = [task EXCEPT !.actual_end_date = {now}]
                  \/ /\ target = CANCEL
                     /\ task' = [task EXCEPT !.cancelled_at = {now}]
                  \/ /\ target = REOPEN
                     /\ task' = [task EXCEPT !.responded_date = {}]
          IN  IF guard THEN last'.err = OK /\ written
              ELSE last'.err = ILLEGAL_STATE_TRANSITION /\ task' = task ]_vars

\* C20 witness: a cancel of a cancelled task was refused.
C20_SecondCancelRefused ==
    /\ last.op = "change_coach_task_state"
    /\ last.target = CANCEL
    /\ last.err = ILLEGAL_STATE_TRANSITION
    /\ Cancelled
    /\ ~Finished

\* a successful reopen is the step
Reopened ==
    /\ last'.op = "change_coach_task_state"
    /\ last'.target = REOPEN
    /\ last'.err = OK
    /\ now' = now
    /\ last' # last \/ task' # task

\* C21: a task with no lifecycle marker set can be cancelled, and a task with
\* cancelled_at set can be neither cancelled, started, responded to, finished
\* nor completed, whatever its other markers are.
C21_CancelClosesTheTask ==
    /\ (~Started /\ ~Finished /\ ~Cancelled /\ ~Responded /\ ~HasResponse) => can_cancel(task)
    /\ Cancelled =>
          /\ ~can_cancel(task)
          /\ ~can_start(task)
          /\ ~can_respond(task)
          /\ ~can_finish(task)
          /\ ~can_complete(task)

\* C21 witness: a cancel has been written on a started task with a response
\* text; none of the five guards holds.
C21_CancelledStartedTask ==
    /\ last.op = "change_coach_task_state"
    /\ last.target = CANCEL
    /\ last.err = OK
    /\ Cancelled /\ Started /\ HasResponse
    /\ ~can_cancel(task) /\ ~can_start(task) /\ ~can_respond(task)
    /\ ~can_finish(task) /\ ~can_complete(task)

\* C22 as stated: can_reopen holds only with responded_date set, and a reopen
\* leads to a state in which can_respond is false.
C22_ReopenClosesRespond ==
    [][ /\ can_reopen(task') => task'.responded_date # {}
        /\ Reopened => ~can_respond(task') ]_vars

\* C22 amended: can_reopen holds exactly with responded_date set; it becomes
\* true only by a finish; a reopen clears responded_date and leads to a state
\* in which can_reopen is false and can_respond is true exactly when the task
\* was started and is neither cancelled nor finished.
C22_ReopenReopensRespond ==
    [][ /\ can_reopen(task') <=> task'.responded_date # {}
        /\ (~can_reopen(task) /\ can_reopen(task')) =>
              (last'.target = FINISH /\ last'.err = OK)
        /\ Reopened =>
              /\ task'.responded_date = {}
              /\ ~can_reopen(task')
              /\ can_respond(task') <=> (Started /\ ~Cancelled /\ ~Finished) ]_vars

\* C22 witness: a responded task was reopened and can be responded to again.
C22_RespondOpenAgain ==
    /\ last.op = "change_coach_task_state"
    /\ last.target = REOPEN
    /\ last.err = OK
    /\ ~Responded
    /\ ~can_reopen(task)
    /\ can_respond(task)

\* the task after a response r is recorded (text, then the responded marker)
\* and the task is reopened
RespondedAndReopened(r) ==
    with_target_state(with_target_state(with_response(task, r), FINISH), REOPEN)
\* recording the response r and reopening are allowed one after the other
CanRespondAndReopen(r) ==
    /\ can_respond(task)
    /\ can_finish(with_response(task, r))
    /\ can_reopen(with_target_state(with_response(task, r), FINISH))

SessionCancelled == session.cancelled_at # {}
SessionFinished == session.actual_end_date # {}
SessionStarted == session.actual_start_date # {}
SessionEffectiveStart ==
    IF session.revised_start_date # {}
    THEN CHOOSE d \in session.revised_start_date : TRUE
    ELSE session.original_start_date
ObjectiveFinished == objective.actual_end_date # {}
ObjectiveStarted == objective.actual_start_date # {}
ObjectiveEffectiveStart ==
    IF objective.revised_start_date # {}
    THEN CHOOSE d \in objective.revised_start_date : TRUE
    ELSE objective.original_start_date
ObjectiveEffectiveEnd ==
    IF objective.revised_end_date # {}
    THEN CHOOSE d \in objective.revised_end_date : TRUE
    ELSE objective.original_end_date

\* C24: Session.status is the first match in the order CANCELLED (cancelled_at
\* set), DONE (actual_end_date set), PROGRESS (actual_start_date set), READY
\* (is_ready), OVERDUE (effective start in the past, the revised start winning
\* over the original), PLANNED, for every session row and clock.
C24_SessionStatusPrecedence ==
    /\ session_status(session) = CANCELLED <=> SessionCancelled
    /\ session_status(session) = DONE <=> ~SessionCancelled /\ SessionFinished
    /\ session_status(session) = PROGRESS <=>
          ~SessionCancelled /\ ~SessionFinished /\ SessionStarted
    /\ session_status(session) = READY <=>
          ~SessionCancelled /\ ~SessionFinished /\ ~SessionStarted /\ session.is_ready
    /\ session_status(session) = OVERDUE <=>
          /\ ~SessionCancelled /\ ~SessionFinished /\ ~SessionStarted
          /\ ~session.is_ready
          /\ SessionEffectiveStart < now
    /\ session_status(session) = PLANNED <=>
          /\ ~SessionCancelled /\ ~SessionFinished /\ ~SessionStarted
          /\ ~session.is_ready
          /\ ~(SessionEffectiveStart < now)

\* C24 witness: a ready session has been started, its original start lies in
\* the past and its revised start does not; it reports PROGRESS.
C24_ReadySessionStarted ==
    /\ last.op = "change_session_state"
    /\ last.target = START
    /\ last.err = OK
    /\ session.is_ready
    /\ SessionStarted
    /\ ~SessionFinished
    /\ ~SessionCancelled
    /\ session.original_start_date < now
    /\ session.revised_start_date # {}
    /\ ~(SessionEffectiveStart < now)
    /\ session_status(session) = PROGRESS

\* C25: Session.can_delete is true exactly when cancelled_at is unset,
\* actual_start_date is unset and is_ready is false, for every session row.
C25_CanDeleteGuard ==
    can_delete(session) <=> ~SessionCancelled /\ ~SessionStarted /\ ~session.is_ready

\* C25 witness: a session that could be deleted has been made ready and can no
\* longer be deleted, though it is neither started nor cancelled.
C25_ReadySessionKept ==
    /\ last.op = "change_session_state"
    /\ last.target = READY
    /\ last.err = OK
    /\ session.is_ready
    /\ ~SessionStarted
    /\ ~SessionCancelled
    /\ ~can_delete(session)

\* C26: Objective.status is the first match in the order DONE (actual_end_date
\* set), PROGRESS (actual_start_date set), DUE (effective start in the past),
\* DELAY (effective end in the past), PLANNED, for every objective row and
\* clock.
C26_ObjectiveStatusPrecedence ==
    /\ objective_status(objective) = DONE <=> ObjectiveFinished
    /\ objective_status(objective) = PROGRESS <=> ~ObjectiveFinished /\ ObjectiveStarted
    /\ objective_status(objective) = DUE <=>
          ~ObjectiveFinished /\ ~ObjectiveStarted /\ ObjectiveEffectiveStart < now
    /\ objective_status(objective) = DELAY <=>
          /\ ~ObjectiveFinished /\ ~ObjectiveStarted
          /\ ~(ObjectiveEffectiveStart < now)
          /\ ObjectiveEffectiveEnd < now
    /\ objective_status(objective) = PLANNED <=>
          /\ ~ObjectiveFinished /\ ~ObjectiveStarted
          /\ ~(ObjectiveEffectiveStart < now)
          /\ ~(ObjectiveEffectiveEnd < now)

\* C26 witness: an objective whose effective start and effective end both lie
\* in the past, after its schedule was updated and time went on, reports DUE.
C26_DueBeforeDelay ==
    /\ ~ObjectiveFinished
    /\ ~ObjectiveStarted
    /\ ObjectiveEffectiveStart < now
    /\ ObjectiveEffectiveEnd < now
    /\ last.op = "update_objective"
    /\ last.err = OK
    /\ objective_status(objective) = DUE

\* ---- the family of a program ---------------------------------------------------
PeerPrograms(p) == {row[1] : row \in get_peer_coaches(p)}

\* C27: get_peer_coaches(p) returns exactly the programs whose
\* parent_program_id is the family root of p, each once and with its own
\* coach, never the root; it returns the same for the root and for every
\* spawned program of the family, and nothing for a root without spawned
\* programs.
C27_PeerCoachesOfTheFamily ==
    \A p \in ProgramIds :
        /\ PeerPrograms(p) =
              {q \in ProgramIds : programs[q].parent_program_id = {Family(p)}}
        /\ Cardinality(get_peer_coaches(p)) = Cardinality(PeerPrograms(p))
        /\ \A row \in get_peer_coaches(p) : row[2] = programs[row[1]].coach_id
        /\ Family(p) \notin PeerPrograms(p)
        /\ \A q \in ProgramIds :
              Family(q) = Family(p) => get_peer_coaches(q) = get_peer_coaches(p)
        /\ (programs[p].is_parent /\ ~\E q \in Spawned : Family(q) = p)
              => get_peer_coaches(p) = {}

\* C27 witness: a coach was associated in a family; the family's root and the
\* spawned program list the same single peer, which is not the root, and
\* another root has no peer.
C27_OnePeerAndALoneRoot ==
    /\ last.op = "associate_coach"
    /\ last.err = OK
    /\ last.ret \in Spawned
    /\ get_peer_coaches(last.ret) = {<<last.ret, programs[last.ret].coach_id>>}
    /\ get_peer_coaches(Family(last.ret)) = get_peer_coaches(last.ret)
    /\ \E r \in ProgramIds :
          /\ programs[r].is_parent
          /\ r # Family(last.ret)
          /\ get_peer_coaches(r) = {}

\* C28: over every reachable program store, coalesce_parent_id of a program
\* names a stored program and is a fixed point: own id for a root, the
\* parent_program_id otherwise, and applying it to its result changes nothing.
C28_CoalesceIdempotent ==
    \A p \in ProgramIds :
        /\ coalesce_parent_id(p) \in ProgramIds
        /\ programs[p].parent_program_id = {} => coalesce_parent_id(p) = p
        /\ programs[p].parent_program_id # {}
              => programs[p].parent_program_id = {coalesce_parent_id(p)}
        /\ coalesce_parent_id(coalesce_parent_id(p)) = coalesce_parent_id(p)

\* C28 witness: a program spawned through a peer's id resolves to the root,
\* not to the peer it was asked through.
C28_SpawnedResolvesToRoot ==
    /\ last.op = "associate_coach"
    /\ last.err = OK
    /\ last.program \in Spawned
    /\ last.ret \in Spawned
    /\ coalesce_parent_id(last.ret) # last.program
    /\ coalesce_parent_id(last.ret) # last.ret
    /\ coalesce_parent_id(coalesce_parent_id(last.ret)) = coalesce_parent_id(last.program)

\* ---- requests side by side ------------------------------------------------------
\* the spawned programs of the family of `root` coached by `coach`
PeersOf(root, coach) ==
    {p \in ProgramIds :
        programs[p].parent_program_id = {root} /\ programs[p].coach_id = coach}

\* two spawned programs of one family with one coach
TwinPeers ==
    {pair \in ProgramIds \X ProgramIds :
        /\ pair[1] # pair[2]
        /\ programs[pair[1]].parent_program_id # {}
        /\ programs[pair[1]].parent_program_id = programs[pair[2]].parent_program_id
        /\ programs[pair[1]].coach_id = programs[pair[2]].coach_id}

\* the enrollments of `user` in the spawned programs of the family of `root`
SpawnedEnrollments(root, user) ==
    {e \in DOMAIN enrollments :
        /\ enrollments[e].member_id = user
        /\ programs[enrollments[e].program_id].parent_program_id = {root}}

\* two enrollments of one member in spawned programs of one family
TwinEnrollments ==
    {pair \in (DOMAIN enrollments) \X (DOMAIN enrollments) :
        /\ pair[1] # pair[2]
        /\ enrollments[pair[1]].member_id = enrollments[pair[2]].member_id
        /\ programs[enrollments[pair[1]].program_id].parent_program_id # {}
        /\ programs[enrollments[pair[1]].program_id].parent_program_id
              = programs[enrollments[pair[2]].program_id].parent_program_id}

\* the request of connection k executes its statement `statement`
Executes(k, statement) == calls[k].pc = statement /\ calls'[k] # calls[k]

\* C29: the statements of associate_coach are separate steps.  The
\* already-associated gate writes nothing and lets the request through exactly
\* when, at that moment, no spawned program of the family has the coach; the
\* insert, reached later, adds the program under the family's root whatever
\* the table holds by then; so two requests that both passed the gate before
\* either inserted leave two spawned programs with one coach_id in the
\* family, and only such a late insert does.
C29_GateThenInsertNotAtomic ==
    [][ /\ \A k \in Callers :
             /\ Executes(k, "gate_already_associated") =>
                   /\ programs' = programs
                   /\ calls'[k].pc = "find_parent"
                         <=> PeersOf(Family(calls[k].program), calls[k].user) = {}
                   /\ calls'[k].pc # "find_parent" => last'.err = COACH_WAS_ASSOCIATED
             /\ Executes(k, "insert_program") =>
                   /\ Len(programs') = Len(programs) + 1
                   /\ programs'[Len(programs')].coach_id = calls[k].user
                   /\ programs'[Len(programs')].parent_program_id
                         = {Family(calls[k].program)}
                   /\ last'.err = OK
        /\ TwinPeers' # TwinPeers =>
             \E k \in Callers :
                 /\ Executes(k, "insert_program")
                 /\ PeersOf(Family(calls[k].program), calls[k].user) # {} ]_vars

\* C29 witness: two associate_coach requests for one coach and one family
\* have both returned Ok, the second after the first had inserted; the family
\* holds two spawned programs with that coach.
C29_TwoPeersOfOneCoach ==
    /\ last.op = "associate_coach"
    /\ last.err = OK
    /\ \E pair \in TwinPeers :
          /\ pair[2] = last.ret
          /\ pair[1] < pair[2]
          /\ programs[pair[1]].coach_id # programs[Family(pair[1])].coach_id

\* C30: the gate and the insert of create_enrollment are separate steps.
\* gate_prior_enrollment writes nothing and lets the request through exactly
\* when, at that moment, the member has no enrollment in a spawned program of
\* the family; the insert, reached later, adds the enrollment whatever the
\* table holds by then; so two requests for one member that both passed the
\* gate before either inserted leave the member with two enrollments in the
\* family, in two spawned programs or in one, and among spawned programs only
\* such a late insert does.
C30_EnrollmentGateThenInsertNotAtomic ==
    [][ /\ \A k \in Callers :
             /\ Executes(k, "gate_prior_enrollment") =>
                   /\ enrollments' = enrollments
                   /\ calls'[k].pc = "insert_enrollment"
                         <=> SpawnedEnrollments(Family(calls[k].program), calls[k].user) = {}
                   /\ calls'[k].pc # "insert_enrollment" => last'.err = WARNING
             /\ Executes(k, "insert_enrollment") =>
                   /\ Len(enrollments') = Len(enrollments) + 1
                   /\ enrollments'[Len(enrollments')].program_id = calls[k].program
                   /\ enrollments'[Len(enrollments')].member_id = calls[k].user
        /\ TwinEnrollments' # TwinEnrollments =>
             \E k \in Callers :
                 /\ Executes(k, "insert_enrollment")
                 /\ SpawnedEnrollments(Family(calls[k].program), calls[k].user) # {} ]_vars

\* C30 witness: two create_enrollment requests of one member for two spawned
\* programs of one family have both inserted, and the later one has returned
\* Ok; the member holds two enrollments in the family.
C30_TwoEnrollmentsInOneFamily ==
    /\ last.op = "create_new_enrollment"
    /\ last.err = OK
    /\ \E pair \in TwinEnrollments :
          /\ pair[2] = last.ret
          /\ enrollments[pair[1]].program_id # enrollments[pair[2]].program_id
          /\ \A k \in Callers : calls[k] = Idle

\* ---- order of the checks ---------------------------------------------------------
CoachOfMail(mail) == {c \in Coaches : EmailOf(c) = mail}
UserOfMail(mail) == {u \in Users : EmailOf(u) = mail}

\* the error associate_coach is to return: the first failing check in the order
\* coach mail, program, past member, already associated
FirstFailingCheck(p, mail) ==
    IF CoachOfMail(mail) = {} THEN INVALID_COACH
    ELSE IF p \notin ProgramIds THEN INVALID_PROGRAM
    ELSE IF \E c \in CoachOfMail(mail) : SpawnedEnrollments(Family(p), c) # {}
    THEN COACH_WAS_A_MEMBER
    ELSE IF \E c \in CoachOfMail(mail) : PeersOf(Family(p), c) # {}
    THEN COACH_WAS_ASSOCIATED
    ELSE OK

\* C31: associate_coach returns the error of the first failing check in the
\* order unknown coach mail (InvalidCoach), unknown program (InvalidProgram),
\* CoachWasMember, CoachAlreadyAssociated, and inserts a program exactly when
\* all four checks pass.
C31_FirstFailingCheckReported ==
    [][last'.op = "associate_coach" =>
       \A p \in {last'.program}, mail \in Emails :
         associate_coach(p, mail) =>
            /\ last'.err = FirstFailingCheck(p, mail)
            /\ programs' # programs <=> FirstFailingCheck(p, mail) = OK
            /\ programs' # programs => Len(programs') = Len(programs) + 1]_vars

\* C31 witness: an associate_coach was refused with CoachWasMember in a family
\* where every coach who is enrolled in a spawned program is also the coach of
\* a spawned program.
C31_MemberBeforeAssociated ==
    /\ last.op = "associate_coach"
    /\ last.err = COACH_WAS_A_MEMBER
    /\ last.program \in ProgramIds
    /\ \E c \in Coaches : SpawnedEnrollments(Family(last.program), c) # {}
    /\ \A c \in Coaches :
          SpawnedEnrollments(Family(last.program), c) # {}
              => PeersOf(Family(last.program), c) # {}

\* the program is stored and its coach is the requesting coach
OwnedBy(p, c) == p \in ProgramIds /\ programs[p].coach_id = c

\* C32: create_managed_enrollment inserts an enrollment only for a known
\* member mail and a program whose coach is the requesting coach; an unknown
\* mail is reported first (invalid member mail), then a program of another
\* coach (no rights), both without an insert; when both checks pass, the
\* request is refused with AlreadyEnrolled exactly when the prior-enrollment
\* gate of create_enrollment refuses the member, and inserts otherwise.
C32_ManagedEnrollmentChecks ==
    [][last'.op = "create_managed_enrollment" =>
       \A p \in {last'.program}, c \in Coaches, mail \in Emails :
         create_managed_enrollment(p, c, mail) =>
            /\ enrollments' # enrollments => UserOfMail(mail) # {} /\ OwnedBy(p, c)
            /\ UserOfMail(mail) = {} =>
                  last'.err = INVALID_MEMBER_MAIL /\ enrollments' = enrollments
            /\ (UserOfMail(mail) # {} /\ ~OwnedBy(p, c)) =>
                  last'.err = CONFLICT_PROGRAM_OWNER_MAIL /\ enrollments' = enrollments
            /\ (UserOfMail(mail) # {} /\ OwnedBy(p, c)) =>
                  \A u \in UserOfMail(mail) :
                     /\ last'.err = WARNING <=> SpawnedEnrollments(Family(p), u) # {}
                     /\ last'.err = WARNING <=> enrollments' = enrollments
                     /\ last'.err # WARNING =>
                           /\ Len(enrollments') = Len(enrollments) + 1
                           /\ enrollments'[Len(enrollments')].program_id = p
                           /\ enrollments'[Len(enrollments')].member_id = u]_vars

\* C32 witness: a coach's request to enroll a member into a program of another
\* coach of the family was refused for lack of rights, after the same member
\* was enrolled by the owner of a program.
C32_NoRightsOnPeerProgram ==
    /\ last.op = "create_managed_enrollment"
    /\ last.err = CONFLICT_PROGRAM_OWNER_MAIL
    /\ last.program \in Spawned
    /\ enrollments # <<>>
    /\ \A e \in DOMAIN enrollments : PureMember(enrollments[e].member_id)

\* ---- the active flag of a root --------------------------------------------------
Roots == {p \in ProgramIds : programs[p].is_parent}

C34_GuardsExcludeAndImply ==
    /\ ~(can_start(task) /\ can_respond(task))
    /\ ~(can_start(task) /\ can_complete(task))
    /\ ~(can_respond(task) /\ can_complete(task))
    /\ can_finish(task) => can_respond(task)
    /\ (can_start(task) \/ can_respond(task) \/ can_finish(task) \/ can_complete(task))
          => can_cancel(task)

\* C34 witness: a response text was recorded on a started task: it can be
\* responded to, finished and cancelled, and neither started nor completed.
C34_FinishableTask ==
    /\ last.op = "update_response"
    /\ last.err = OK
    /\ can_finish(task)
    /\ can_respond(task)
    /\ can_cancel(task)
    /\ ~can_start(task)
    /\ ~can_complete(task)

\* C35: can_cancel is false exactly when the status is CANCELLED or DONE;
\* can_complete is true exactly when the status is RESPONDED; a task whose
\* status is PLANNED or DUE can be started.
C35_StatusAgreesWithGuards ==
    /\ ~can_cancel(task) <=> status(task) \in {CANCELLED, DONE}
    /\ can_complete(task) <=> status(task) = RESPONDED
    /\ status(task) \in {PLANNED, DUE} => can_start(task)

\* C35 witness: a task was completed: its status is DONE and it can be neither
\* cancelled nor completed.
C35_CompletedTask ==
    /\ last.op = "change_coach_task_state"
    /\ last.target = DONE
    /\ last.err = OK
    /\ status(task) = DONE
    /\ ~can_cancel(task)
    /\ ~can_complete(task)

\* C36: CANCELLED and DONE are absorbing: whatever guarded operation is asked
\* next (start, respond, finish, complete, cancel, reopen) and however the
\* clock advances, a task whose status is CANCELLED reports CANCELLED in the
\* next state, and a task whose status is DONE reports DONE.
C36_ClosedStatesAbsorb ==
    [][ /\ status(task) = CANCELLED => status(task)' = CANCELLED
        /\ status(task) = DONE => status(task)' = DONE ]_vars

\* C36 witness: a completed task with a responded marker was reopened; the
\* marker is cleared and the status is still DONE.
C36_DoneAfterReopen ==
    /\ last.op = "change_coach_task_state"
    /\ last.target = REOPEN
    /\ last.err = OK
    /\ Finished
    /\ ~Cancelled
    /\ ~Responded
    /\ status(task) = DONE

\* C37: can_reopen holds exactly when responded_date is set, also on a
\* cancelled and on a finished task; on a task whose status is CANCELLED or
\* DONE no other guard holds.
C37_OnlyReopenOnClosedTask ==
    /\ can_reopen(task) <=> Responded
    /\ status(task) \in {CANCELLED, DONE} =>
          /\ ~can_start(task)
          /\ ~can_respond(task)
          /\ ~can_finish(task)
          /\ ~can_complete(task)
          /\ ~can_cancel(task)

\* C37 witness: a responded task was cancelled; its status is CANCELLED and it
\* can be reopened.
C37_CancelledTaskCanReopen ==
    /\ last.op = "change_coach_task_state"
    /\ last.target = CANCEL
    /\ last.err = OK
    /\ Responded
    /\ status(task) = CANCELLED
    /\ can_reopen(task)

\* ---- the schedule of an objective ------------------------------------------------
\* C38: an objective whose effective start is not later than its effective end
\* never reports DELAY, at any clock; DELAY is reported only for an unstarted,
\* unfinished objective whose effective end is before its effective start.
C38_DelayOnlyForReversedSchedule ==
    /\ ObjectiveEffectiveStart <= ObjectiveEffectiveEnd
          => objective_status(objective) # DELAY
    /\ objective_status(objective) = DELAY =>
          /\ ~ObjectiveStarted
          /\ ~ObjectiveFinished
          /\ ObjectiveEffectiveEnd < ObjectiveEffectiveStart

\* C38 witness: a schedule whose end is before its start was accepted, time
\* went on, and the objective reports DELAY.
C38_ReversedScheduleDelayed ==
    /\ last.op = "update_objective"
    /\ last.err = OK
    /\ objective.revised_start_date = {}
    /\ objective.revised_end_date = {}
    /\ objective.original_end_date < objective.original_start_date
    /\ objective_status(objective) = DELAY

\* ---- the gate and other families -------------------------------------------------
\* the enrollments of member m in the programs of p's family
EnrollmentsInFamily(p, m) ==
    {e \in DOMAIN enrollments :
        /\ enrollments[e].member_id = m
        /\ Family(enrollments[e].program_id) = Family(p)}

\* C39: a create_enrollment or managed enrollment of member M into program P
\* is refused with AlreadyEnrolled only when M has an enrollment in a program
\* of P's family: enrollments of M in other families and enrollments of other
\* members never close the gate.
C39_GateIsFamilyLocal ==
    [][(last'.op \in MemberOps /\ last'.err = WARNING) =>
          \A p \in {last'.program}, m \in Users :
             Enroll(p, m) => EnrollmentsInFamily(p, m) # {}]_vars

\* C39 witness: a member with an enrollment in one family was enrolled into a
\* spawned program of another family.
C39_EnrolledInTwoFamilies ==
    /\ last.op \in MemberOps
    /\ last.err = OK
    /\ last.program \in Spawned
    /\ last.ret \in MemberRows
    /\ PureMember(enrollments[last.ret].member_id)
    /\ \E e \in MemberRows :
          /\ enrollments[e].member_id = enrollments[last.ret].member_id
          /\ Family(enrollments[e].program_id) # Family(last.program)
    /\ EnrollmentsInFamily(last.program, enrollments[last.ret].member_id) = {last.ret}

TypeOK ==
    /\ Len(programs) <= MaxPrograms
    /\ Len(enrollments) <= MaxEnrollments
====
